---- MODULE Spec2Model ----
(***************************************************************************)
(* A model of src/cmd_api.cpp: the two commands api-prepare                *)
(* (PrepareCommand) and api-collect (CollectCommand) of simpleperf.        *)
(*                                                                         *)
(* One process runs one command.  SpecPrepare is PrepareCommand::Run,      *)
(* SpecCollect is CollectCommand::Run together with the detached watcher   *)
(* thread of HandleStopSignal and the peer that holds the other end of the *)
(* stop-signal descriptor.                                                 *)
(***************************************************************************)
EXTENDS Integers, Sequences, FiniteSets

VARIABLES
    pc,                 \* position of the main thread inside Run
    result,             \* what Run returned: "none" while running, else TRUE / FALSE
    proc,               \* "running" | "returned" (Run returned) | "exited" (exit(1))
    app_name_,          \* member app_name_ of the command object
    \* ---- PrepareCommand
    days_,              \* member days_
    parsed,             \* ParseOptions returned true
    androidVersion,     \* what GetAndroidVersion() returns on this device
    now,                \* what time(nullptr) returned ("unread" before the call)
    expiration_time,    \* local expiration_time ("unset" before it is computed)
    listing,            \* output of `pm list packages -U`, a sequence of lines
    uid,                \* local uid: nullopt or Some(value)
    props,              \* the system property store
    setPropertyLog,     \* keys of the successful SetProperty calls, in order
    branch,             \* "none" | "durable" | "transient": branch of line 72 entered
    tracepointsWritten, \* WriteTracepointsToFile was called and succeeded
    \* ---- CollectCommand
    in_app_context_,    \* member in_app_context_
    out_fd_,            \* member out_fd_: "none" (-1) or "out"
    stop_signal_fd_,    \* member stop_signal_fd_: "none" (-1) or "stop"
    argStopFd,          \* --stop-signal-fd was on the command line
    openFds,            \* descriptors open in the process
    ownedFds,           \* descriptors the handler took ownership of during this call
    dir,                \* simpleperf_data: whether it exists, and name -> entry
    dir0,               \* simpleperf_data as it was when Run was called
    entries,            \* what GetEntriesInDir returned, still to be visited
    cur,                \* name of the entry being archived ("none" outside the loop)
    offset,             \* bytes of the current input file already read
    buffer,             \* bytes the last read() put into buffer
    archive,            \* zip entries written so far: sequence of [name, data, finished]
    archiveFinished,    \* zip_writer.Finish() succeeded
    collected,          \* CollectRecordingData: "pending" | "ok" | "failed"
    removeCalled,       \* RemoveRecordingData was invoked
    runInAppCalled,     \* RunInAppContext was invoked
    watcher,            \* watcher thread: "none" | "reading" | "woken" | "exited"
    watcherFd,          \* the fd captured by the watcher's lambda
    stopReadable,       \* the stop-signal descriptor has data or saw EOF
    signalledAt         \* where the main thread was when that happened ("never" before)

prepVars == <<days_, parsed, androidVersion, now, expiration_time, listing, uid,
              props, setPropertyLog, branch, tracepointsWritten>>

collVars == <<in_app_context_, out_fd_, stop_signal_fd_, argStopFd, openFds, ownedFds,
              dir, dir0, entries, cur, offset, buffer, archive, archiveFinished,
              collected, removeCalled, runInAppCalled, watcher, watcherFd,
              stopReadable, signalledAt>>

vars == <<pc, result, proc, app_name_, prepVars, collVars>>

(***************************************************************************)
(* Bounds.  TLC's integers are 32 bits wide, so the two unsigned widths of *)
(* the program are scaled down; the arithmetic is unchanged.               *)
(***************************************************************************)
\* width standing for the 64 bits of uint64_t (days_, expiration_time)
Uint64Bits == 20
\* width standing for the 32 bits of uint32_t (the uid)
Uint32Bits == 6
\* longest package listing
MaxLines == 3
\* longest recording file, in bytes
MaxFileLen == 3
\* size of the copy buffer (64 * 1024 in the source)
BufferSize == 2

RECURSIVE Pow2(_)
Pow2(n) == IF n = 0 THEN 1 ELSE 2 * Pow2(n - 1)

UINT64_MAX == Pow2(Uint64Bits) - 1
UINT32_MAX == Pow2(Uint32Bits) - 1

SecondsPerDay == 24 * 3600

MinAndroidVersion == 13

Min(S) == CHOOSE x \in S : \A y \in S : x <= y
MinOf(a, b) == IF a <= b THEN a ELSE b

(***************************************************************************)
(* Conversions between numbers and decimal text (sequences of digits).    *)
(***************************************************************************)
RECURSIVE to_string(_)
to_string(n) == IF n < 10 THEN <<n>> ELSE to_string(n \div 10) \o <<n % 10>>

\* the number a digit sequence denotes, unbounded
RECURSIVE DecimalValue(_)
DecimalValue(s) ==
    IF s = <<>> THEN 0 ELSE 10 * DecimalValue(SubSeq(s, 1, Len(s) - 1)) + s[Len(s)]

\* absent and present values of std::optional, and of ParseUint's (ok, value) pair
nullopt == <<>>
Some(v) == <<v>>
Value(opt) == opt[1]

\* android::base::ParseUint into a uint32_t: nullopt when the value does not fit
ParseUint(s) ==
    IF s = <<>> \/ DecimalValue(s) > UINT32_MAX THEN nullopt ELSE Some(DecimalValue(s))

(***************************************************************************)
(* PrepareCommand                                                          *)
(***************************************************************************)
AppNames == {"", "com.a", "com.b"}

Versions == {MinAndroidVersion - 1, MinAndroidVersion, MinAndroidVersion + 1}

\* day counts around the point where days * 86400 leaves the 64-bit range
MaxDays == UINT64_MAX \div SecondsPerDay
DayCounts == {0, 1, MaxDays, MaxDays + 1}

\* times around the point where now + duration leaves the range; -1 is time()'s error
Times == {-1, 0, 1,
          UINT64_MAX - MaxDays * SecondsPerDay,
          UINT64_MAX - MaxDays * SecondsPerDay + 1,
          UINT64_MAX - SecondsPerDay,
          UINT64_MAX - SecondsPerDay + 1,
          UINT64_MAX}

\* lines of the listing: "pkg" lines match the regex of line 129, "other" lines do not
\* uid texts: a leading zero, the largest uid that fits, the first that does not
UidTexts == {<<0, 9>>, to_string(UINT32_MAX), to_string(UINT32_MAX + 1)}
PkgLines == [kind : {"pkg"}, name : {"com.a"}, uid : UidTexts]
            \cup [kind : {"pkg"}, name : {"com.ab"}, uid : {<<8>>}]
OtherLines == {[kind |-> "other", name |-> "", uid |-> <<>>]}
Lines == PkgLines \cup OtherLines
Listings == UNION {[1..n -> Lines] : n \in 0..MaxLines}

\* the matches std::sregex_iterator yields, in order
RegexMatches(content) == SelectSeq(content, LAMBDA l : l.kind = "pkg")

\* the loop of lines 132-142 over the remaining matches
RECURSIVE ScanMatches(_, _)
ScanMatches(matches, app) ==
    IF matches = <<>> THEN nullopt
    ELSE LET match == Head(matches)
             parsedUid == ParseUint(match.uid)
         IN  IF parsedUid = nullopt THEN ScanMatches(Tail(matches), app)
             ELSE IF match.name = app THEN parsedUid
             ELSE ScanMatches(Tail(matches), app)

\* __builtin_mul_overflow / __builtin_add_overflow into a uint64_t: the exact
\* result does not fit
Overflows(x) == x < 0 \/ x > UINT64_MAX

\* variant: the sum taken modulo 2^64, without the overflow checks
ExpirationTimeWrapping(d, t) == (t + d * SecondsPerDay) % (UINT64_MAX + 1)

\* lines 74-79
ExpirationTime(d, t) ==
    IF Overflows(d * SecondsPerDay) \/ Overflows(t + d * SecondsPerDay)
    THEN UINT64_MAX
    ELSE t + d * SecondsPerDay

\* variant: the OS version is not looked at
UseDurableGrantIgnoringVersion(version, app, days) == app # "" /\ days # 0

\* the condition of line 72
UseDurableGrant(version, app, days) ==
    version >= MinAndroidVersion /\ app # "" /\ days # 0

PROP_UID == "persist.simpleperf.profile_app_uid"
PROP_EXPIRATION == "persist.simpleperf.profile_app_expiration_time"

\* the property store before the command runs: empty, or an earlier grant
InitialProps ==
    {[k \in {PROP_UID, PROP_EXPIRATION} |-> <<>>],
     [k \in {PROP_UID, PROP_EXPIRATION} |-> IF k = PROP_UID THEN <<5>> ELSE <<1>>]}

\* the main thread is at `label` and the process is alive
At(label) == proc = "running" /\ pc = label

Return(value) ==
    /\ pc' = "Done"
    /\ result' = value
    /\ proc' = "returned"

CollectIdle ==
    /\ in_app_context_ = FALSE
    /\ out_fd_ = "none"
    /\ stop_signal_fd_ = "none"
    /\ argStopFd = FALSE
    /\ openFds = {}
    /\ ownedFds = {}
    /\ dir = [exists |-> FALSE, files |-> <<>>]
    /\ dir0 = dir
    /\ entries = <<>>
    /\ cur = "none"
    /\ offset = 0
    /\ buffer = <<>>
    /\ archive = <<>>
    /\ archiveFinished = FALSE
    /\ collected = "pending"
    /\ removeCalled = FALSE
    /\ runInAppCalled = FALSE
    /\ watcher = "none"
    /\ watcherFd = "none"
    /\ stopReadable = FALSE
    /\ signalledAt = "never"

InitPrepare ==
    /\ At("ParseOptions")
    /\ result = "none"
    /\ proc = "running"
    /\ app_name_ = ""
    /\ days_ = 0
    /\ parsed = FALSE
    /\ androidVersion \in Versions
    /\ now = "unread"
    /\ expiration_time = "unset"
    /\ listing = <<>>
    /\ uid = nullopt
    /\ props \in InitialProps
    /\ setPropertyLog = <<>>
    /\ branch = "none"
    /\ tracepointsWritten = FALSE
    /\ CollectIdle

\* PreprocessOptions rejects the arguments (line 109)
PrepareParseRejected ==
    /\ At("ParseOptions")
    /\ Return(FALSE)
    /\ UNCHANGED <<app_name_, prepVars, collVars>>

\* --app was pulled, then PullUintValue("--days") failed (line 116)
PrepareParseDaysFailed ==
    /\ At("ParseOptions")
    /\ \E app \in AppNames : app_name_' = app
    /\ Return(FALSE)
    /\ UNCHANGED <<prepVars, collVars>>

\* ParseOptions returns true (lines 113-119)
PrepareParseOk ==
    /\ At("ParseOptions")
    /\ \E app \in AppNames, d \in DayCounts :
          /\ app_name_' = app
          /\ days_' = d
    /\ parsed' = TRUE
    /\ pc' = "SelectBranch"
    /\ UNCHANGED <<result, proc, androidVersion, now, expiration_time, listing, uid,
                   props, setPropertyLog, branch, tracepointsWritten, collVars>>

\* line 72 true, then lines 74-79
PrepareEnterDurable ==
    /\ At("SelectBranch")
    /\ UseDurableGrant(androidVersion, app_name_, days_)
    /\ branch' = "durable"
    /\ \E t \in Times :
          /\ now' = t
          /\ expiration_time' = ExpirationTime(days_, t)
    /\ pc' = "GetAppUid"
    /\ UNCHANGED <<result, proc, app_name_, days_, parsed, androidVersion, listing, uid,
                   props, setPropertyLog, tracepointsWritten, collVars>>

\* line 72 false: the else branch of line 91
PrepareEnterTransient ==
    /\ At("SelectBranch")
    /\ ~UseDurableGrant(androidVersion, app_name_, days_)
    /\ branch' = "transient"
    /\ pc' = "CheckPerfEventLimit"
    /\ UNCHANGED <<result, proc, app_name_, days_, parsed, androidVersion, now,
                   expiration_time, listing, uid, props, setPropertyLog,
                   tracepointsWritten, collVars>>

\* GetAppUid: popen or ReadFdToString failed (lines 125-128), Run returns at line 82
GetAppUidPopenFailed ==
    /\ At("GetAppUid")
    /\ uid' = nullopt
    /\ Return(FALSE)
    /\ UNCHANGED <<app_name_, days_, parsed, androidVersion, now, expiration_time,
                   listing, props, setPropertyLog, branch, tracepointsWritten, collVars>>

\* variant: only the first match is looked at
GetAppUidFirstLine(content, app) ==
    LET matches == RegexMatches(content)
    IN  IF matches = <<>> THEN nullopt
        ELSE IF ParseUint(matches[1].uid) = nullopt THEN nullopt
        ELSE IF matches[1].name = app THEN ParseUint(matches[1].uid)
        ELSE nullopt

\* lines 129-144 on the text the helper printed
GetAppUid(content, app) == ScanMatches(RegexMatches(content), app)

\* GetAppUid read the listing; Run goes on at line 81
GetAppUidRead ==
    /\ At("GetAppUid")
    /\ \E content \in Listings :
          /\ listing' = content
          /\ uid' = GetAppUid(content, app_name_)
          /\ IF GetAppUid(content, app_name_) = nullopt
             THEN Return(FALSE)
             ELSE pc' = "SetUid" /\ UNCHANGED <<result, proc>>
    /\ UNCHANGED <<app_name_, days_, parsed, androidVersion, now, expiration_time,
                   props, setPropertyLog, branch, tracepointsWritten, collVars>>

\* android::base::SetProperty: on success the store holds the value
SetProperty(key, value) ==
    /\ props' = [props EXCEPT ![key] = value]
    /\ setPropertyLog' = Append(setPropertyLog, key)

\* variant: the expiration property is not written after the uid
SetUidOkSkippingExpiration ==
    /\ At("SetUid")
    /\ SetProperty(PROP_UID, to_string(Value(uid)))
    /\ pc' = "WriteTracepoints"
    /\ UNCHANGED <<result, proc, app_name_, days_, parsed, androidVersion, now,
                   expiration_time, listing, uid, branch, tracepointsWritten, collVars>>

\* lines 84-85: the uid property is written
SetUidOk ==
    /\ At("SetUid")
    /\ SetProperty(PROP_UID, to_string(Value(uid)))
    /\ pc' = "SetExpiration"
    /\ UNCHANGED <<result, proc, app_name_, days_, parsed, androidVersion, now,
                   expiration_time, listing, uid, branch, tracepointsWritten, collVars>>

\* lines 84-85 fail: lines 88-89
SetUidFailed ==
    /\ At("SetUid")
    /\ Return(FALSE)
    /\ UNCHANGED <<app_name_, prepVars, collVars>>

\* lines 86-87: the expiration property is written
SetExpirationOk ==
    /\ At("SetExpiration")
    /\ SetProperty(PROP_EXPIRATION, to_string(expiration_time))
    /\ pc' = "WriteTracepoints"
    /\ UNCHANGED <<result, proc, app_name_, days_, parsed, androidVersion, now,
                   expiration_time, listing, uid, branch, tracepointsWritten, collVars>>

\* lines 86-87 fail: lines 88-89
SetExpirationFailed ==
    /\ At("SetExpiration")
    /\ Return(FALSE)
    /\ UNCHANGED <<app_name_, prepVars, collVars>>

\* line 93, CheckPerfEventLimit returned true
CheckPerfEventLimitOk ==
    /\ At("CheckPerfEventLimit")
    /\ pc' = "WriteTracepoints"
    /\ UNCHANGED <<result, proc, app_name_, prepVars, collVars>>

\* lines 93-95, CheckPerfEventLimit returned false
CheckPerfEventLimitFailed ==
    /\ At("CheckPerfEventLimit")
    /\ Return(FALSE)
    /\ UNCHANGED <<app_name_, prepVars, collVars>>

\* line 99, WriteTracepointsToFile returned true
WriteTracepointsOk ==
    /\ At("WriteTracepoints")
    /\ tracepointsWritten' = TRUE
    /\ Return(TRUE)
    /\ UNCHANGED <<app_name_, days_, parsed, androidVersion, now, expiration_time,
                   listing, uid, props, setPropertyLog, branch, collVars>>

\* line 99, WriteTracepointsToFile returned false
WriteTracepointsFailed ==
    /\ At("WriteTracepoints")
    /\ Return(FALSE)
    /\ UNCHANGED <<app_name_, prepVars, collVars>>

NextPrepare ==
    \/ PrepareParseRejected
    \/ PrepareParseDaysFailed
    \/ PrepareParseOk
    \/ PrepareEnterDurable
    \/ PrepareEnterTransient
    \/ GetAppUidPopenFailed
    \/ GetAppUidRead
    \/ SetUidOk
    \/ SetUidFailed
    \/ SetExpirationOk
    \/ SetExpirationFailed
    \/ CheckPerfEventLimitOk
    \/ CheckPerfEventLimitFailed
    \/ WriteTracepointsOk
    \/ WriteTracepointsFailed

SpecPrepare == InitPrepare /\ [][NextPrepare]_vars

(***************************************************************************)
(* CollectCommand                                                          *)
(***************************************************************************)
\* file names are sequences of characters, so that StartsWith is computed
TEMP_PREFIX == <<"T", "e", "m", "p", "o", "r", "a", "r", "y", "F", "i", "l", "e", "-">>
PERF_DATA == <<"p", "e", "r", "f", ".", "d", "a", "t", "a">>
TEMP_FILE_42 == TEMP_PREFIX \o <<"4", "2">>
TEMPORARY_FILE == SubSeq(TEMP_PREFIX, 1, Len(TEMP_PREFIX) - 1)
X_TEMP_FILE == <<"x">> \o TEMP_PREFIX

FileNames == <<PERF_DATA, TEMP_FILE_42, TEMPORARY_FILE, X_TEMP_FILE>>
NameSet == {FileNames[i] : i \in 1..Len(FileNames)}
NameIndex(name) == CHOOSE i \in 1..Len(FileNames) : FileNames[i] = name

\* android::base::StartsWith
StartsWith(s, prefix) ==
    Len(s) >= Len(prefix) /\ SubSeq(s, 1, Len(prefix)) = prefix

\* the bytes of a file of n bytes; different files hold different bytes
FileData(name, n) == [i \in 1..n |-> 10 * NameIndex(name) + i]

Dir == [kind |-> "dir", data |-> <<>>]
File(name, n) == [kind |-> "file", data |-> FileData(name, n)]

\* what a name can be in simpleperf_data
EntryChoices(name) ==
    IF name = PERF_DATA
      THEN {File(name, n) : n \in {0, 1, MaxFileLen}}
    ELSE IF name = TEMP_FILE_42
      THEN {File(name, 1)}
    ELSE IF name = TEMPORARY_FILE
      THEN {File(name, MaxFileLen), Dir}
    ELSE {Dir}

DirContents(names) == {d \in [names -> UNION {EntryChoices(n) : n \in names}] :
                          \A n \in names : d[n] \in EntryChoices(n)}
\* simpleperf_data does not exist
NoDir == [exists |-> FALSE, files |-> <<>>]
Directories ==
    {NoDir} \cup {[exists |-> TRUE, files |-> d] :
                     d \in UNION {DirContents(names) : names \in SUBSET NameSet}}

DirExists(d) == d.exists

\* the sequences that list each element of S once: readdir's order is arbitrary
Orderings(S) == {f \in [1..Cardinality(S) -> S] :
                    \A i, j \in 1..Cardinality(S) : i # j => f[i] # f[j]}

\* GetEntriesInDir: the names in the directory; none when it cannot be opened
GetEntriesInDir(d) == IF DirExists(d) THEN Orderings(DOMAIN d.files) ELSE {<<>>}

IsRegularFile(d, name) ==
    DirExists(d) /\ name \in DOMAIN d.files /\ d.files[name].kind = "file"

\* variant: the name is not looked at
SkipsEntryNoPrefixCheck(d, name) == ~IsRegularFile(d, name)

\* the filter of line 247
SkipsEntry(d, name) == StartsWith(name, TEMP_PREFIX) \/ ~IsRegularFile(d, name)

CollectAppNames == {"", "com.a"}

PrepareIdle ==
    /\ days_ = 0
    /\ parsed = FALSE
    /\ androidVersion = MinAndroidVersion
    /\ now = "unread"
    /\ expiration_time = "unset"
    /\ listing = <<>>
    /\ uid = nullopt
    /\ props = [k \in {PROP_UID, PROP_EXPIRATION} |-> <<>>]
    /\ setPropertyLog = <<>>
    /\ branch = "none"
    /\ tracepointsWritten = FALSE

\* the process when CollectCommand::Run is called: the descriptors named on the
\* command line are open, simpleperf_data is whatever the recording left
InitCollect ==
    /\ At("ParseOptions")
    /\ result = "none"
    /\ proc = "running"
    /\ app_name_ = ""
    /\ PrepareIdle
    /\ in_app_context_ = FALSE
    /\ out_fd_ = "none"
    /\ stop_signal_fd_ = "none"
    /\ argStopFd \in BOOLEAN
    /\ \E argOutFd \in BOOLEAN :
          openFds = (IF argOutFd THEN {"out"} ELSE {})
                    \cup (IF argStopFd THEN {"stop"} ELSE {})
    /\ ownedFds = {}
    /\ dir \in Directories
    /\ dir0 = dir
    /\ entries = <<>>
    /\ cur = "none"
    /\ offset = 0
    /\ buffer = <<>>
    /\ archive = <<>>
    /\ archiveFinished = FALSE
    /\ collected = "pending"
    /\ removeCalled = FALSE
    /\ runInAppCalled = FALSE
    /\ watcher = "none"
    /\ watcherFd = "none"
    /\ stopReadable = FALSE
    /\ signalledAt = "never"

\* PreprocessOptions rejects the arguments (lines 194-197)
CollectParseRejected ==
    /\ At("ParseOptions")
    /\ Return(FALSE)
    /\ UNCHANGED <<app_name_, prepVars, collVars>>

\* lines 199-212: the members take the options' values; the two unique_fd
\* members now own the descriptors named on the command line
PullOptions(app, inApp) ==
    /\ app_name_' = app
    /\ in_app_context_' = inApp
    /\ out_fd_' = IF "out" \in openFds THEN "out" ELSE "none"
    /\ stop_signal_fd_' = IF "stop" \in openFds THEN "stop" ELSE "none"
    /\ ownedFds' = openFds

\* lines 216-221: not in the app's context and no --app
CollectParseMissingApp ==
    /\ At("ParseOptions")
    /\ PullOptions("", FALSE)
    /\ Return(FALSE)
    /\ UNCHANGED <<prepVars, argStopFd, openFds, dir, dir0, entries, cur, offset, buffer,
                   archive, archiveFinished, collected, removeCalled, runInAppCalled,
                   watcher, watcherFd, stopReadable, signalledAt>>

\* variant: an empty --app is let through
ParseAcceptsAnyApp(app, inApp) == TRUE

\* what ParseOptions accepts (lines 216-222)
ParseAccepts(app, inApp) == inApp \/ app # ""

\* ParseOptions returns true
CollectParseOk ==
    /\ At("ParseOptions")
    /\ \E app \in CollectAppNames, inApp \in BOOLEAN :
          /\ ParseAccepts(app, inApp)
          /\ PullOptions(app, inApp)
    /\ parsed' = TRUE
    /\ pc' = "Dispatch"
    /\ UNCHANGED <<result, proc, days_, androidVersion, now, expiration_time, listing,
                   uid, props, setPropertyLog, branch, tracepointsWritten,
                   argStopFd, openFds, dir, dir0, entries, cur, offset, buffer,
                   archive, archiveFinished, collected, removeCalled, runInAppCalled,
                   watcher, watcherFd, stopReadable, signalledAt>>

\* line 188: hand over to RunInAppContext and return what it returns
RunInAppContext ==
    /\ At("Dispatch")
    /\ ~in_app_context_
    /\ runInAppCalled' = TRUE
    /\ \E ok \in BOOLEAN : Return(ok)
    /\ UNCHANGED <<app_name_, prepVars, in_app_context_, out_fd_, stop_signal_fd_,
                   argStopFd, openFds, ownedFds, dir, dir0, entries, cur, offset, buffer,
                   archive, archiveFinished, collected, removeCalled,
                   watcher, watcherFd, stopReadable, signalledAt>>

\* lines 225-233: the member gives the descriptor up, the thread starts
HandleStopSignal ==
    /\ At("Dispatch")
    /\ in_app_context_
    /\ watcherFd' = stop_signal_fd_
    /\ stop_signal_fd_' = "none"
    /\ watcher' = "reading"
    /\ pc' = "Fdopen"
    /\ UNCHANGED <<result, proc, app_name_, prepVars, in_app_context_, out_fd_,
                   argStopFd, openFds, ownedFds, dir, dir0, entries, cur, offset, buffer,
                   archive, archiveFinished, collected, removeCalled, runInAppCalled,
                   stopReadable, signalledAt>>

\* variant: the input file stays open on the error paths
CollectFailsLeakingInput ==
    /\ collected' = "failed"
    /\ openFds' = openFds \ {"out"}
    /\ Return(FALSE)

\* variant: Run goes on to RemoveRecordingData after a failed collection
CollectFailsThenRemoves ==
    /\ collected' = "failed"
    /\ openFds' = openFds \ {"in", "out"}
    /\ pc' = "RemoveRecordingData"
    /\ UNCHANGED <<result, proc>>

\* CollectRecordingData returns false and Run returns it: in_fd and fp go out of
\* scope, which closes the input file and the output stream
CollectFails ==
    /\ collected' = "failed"
    /\ openFds' = openFds \ {"in", "out"}
    /\ Return(FALSE)

\* lines 236-241: Fdopen fails (it closes the descriptor it was given)
FdopenFailed ==
    /\ At("Fdopen")
    /\ out_fd_' = "none"
    /\ CollectFails
    /\ UNCHANGED <<app_name_, prepVars, in_app_context_, stop_signal_fd_, argStopFd,
                   ownedFds, dir, dir0, entries, cur, offset, buffer, archive,
                   archiveFinished, removeCalled, runInAppCalled, watcher, watcherFd,
                   stopReadable, signalledAt>>

\* lines 236-244: fp owns the output, the directory is listed
FdopenOk ==
    /\ At("Fdopen")
    /\ out_fd_ # "none"
    /\ out_fd_' = "none"
    /\ entries' \in GetEntriesInDir(dir)
    /\ pc' = "Loop"
    /\ UNCHANGED <<result, proc, app_name_, prepVars, in_app_context_, stop_signal_fd_,
                   argStopFd, openFds, ownedFds, dir, dir0, cur, offset, buffer, archive,
                   archiveFinished, collected, removeCalled, runInAppCalled, watcher,
                   watcherFd, stopReadable, signalledAt>>

loopUnchanged == <<app_name_, prepVars, in_app_context_, out_fd_, stop_signal_fd_,
                   argStopFd, dir, dir0, removeCalled, runInAppCalled, watcher,
                   watcherFd, stopReadable, signalledAt>>

\* lines 247-249: continue
LoopSkip ==
    /\ At("Loop")
    /\ entries # <<>>
    /\ SkipsEntry(dir, Head(entries))
    /\ entries' = Tail(entries)
    /\ UNCHANGED <<pc, result, proc, openFds, ownedFds, cur, offset, buffer, archive,
                   archiveFinished, collected>>
    /\ UNCHANGED loopUnchanged

\* line 250: StartEntry returned 0
StartEntryOk ==
    /\ At("Loop")
    /\ entries # <<>>
    /\ ~SkipsEntry(dir, Head(entries))
    /\ cur' = Head(entries)
    /\ archive' = Append(archive, [name |-> Head(entries), data |-> <<>>,
                                   finished |-> FALSE])
    /\ pc' = "OpenReadOnly"
    /\ UNCHANGED <<result, proc, openFds, ownedFds, entries, offset, buffer,
                   archiveFinished, collected>>
    /\ UNCHANGED loopUnchanged

\* lines 251-255
StartEntryFailed ==
    /\ At("Loop")
    /\ entries # <<>>
    /\ ~SkipsEntry(dir, Head(entries))
    /\ CollectFails
    /\ UNCHANGED <<ownedFds, entries, cur, offset, buffer, archive, archiveFinished>>
    /\ UNCHANGED loopUnchanged

\* line 256: the input file is open
OpenReadOnlyOk ==
    /\ At("OpenReadOnly")
    /\ openFds' = openFds \cup {"in"}
    /\ ownedFds' = ownedFds \cup {"in"}
    /\ offset' = 0
    /\ pc' = "Read"
    /\ UNCHANGED <<result, proc, entries, cur, buffer, archive, archiveFinished,
                   collected>>
    /\ UNCHANGED loopUnchanged

\* lines 257-260
OpenReadOnlyFailed ==
    /\ At("OpenReadOnly")
    /\ CollectFails
    /\ UNCHANGED <<ownedFds, entries, cur, offset, buffer, archive, archiveFinished>>
    /\ UNCHANGED loopUnchanged

\* line 262 with nread > 0: up to buffer.size() of the bytes that are left
ReadSome ==
    /\ At("Read")
    /\ \E nread \in 1..MinOf(BufferSize, Len(dir.files[cur].data) - offset) :
          /\ buffer' = SubSeq(dir.files[cur].data, offset + 1, offset + nread)
          /\ offset' = offset + nread
    /\ pc' = "WriteBytes"
    /\ UNCHANGED <<result, proc, openFds, ownedFds, entries, cur, archive,
                   archiveFinished, collected>>
    /\ UNCHANGED loopUnchanged

\* lines 267-269: nread == 0 at the end of the file
ReadEof ==
    /\ At("Read")
    /\ offset = Len(dir.files[cur].data)
    /\ pc' = "FinishEntry"
    /\ UNCHANGED <<result, proc, openFds, ownedFds, entries, cur, offset, buffer,
                   archive, archiveFinished, collected>>
    /\ UNCHANGED loopUnchanged

\* lines 263-266: nread < 0
ReadFailed ==
    /\ At("Read")
    /\ CollectFails
    /\ UNCHANGED <<ownedFds, entries, cur, offset, buffer, archive, archiveFinished>>
    /\ UNCHANGED loopUnchanged

\* ZipWriter::WriteBytes on the entry that is open
AppendBytes(zip, bytes) ==
    [zip EXCEPT ![Len(zip)].data = zip[Len(zip)].data \o bytes]

\* line 270: WriteBytes returned 0
WriteBytesOk ==
    /\ At("WriteBytes")
    /\ archive' = AppendBytes(archive, buffer)
    /\ pc' = "Read"
    /\ UNCHANGED <<result, proc, openFds, ownedFds, entries, cur, offset, buffer,
                   archiveFinished, collected>>
    /\ UNCHANGED loopUnchanged

\* lines 271-275
WriteBytesFailed ==
    /\ At("WriteBytes")
    /\ CollectFails
    /\ UNCHANGED <<ownedFds, entries, cur, offset, buffer, archive, archiveFinished>>
    /\ UNCHANGED loopUnchanged

\* line 277: FinishEntry returned 0; in_fd goes out of scope at line 283
FinishEntryOk ==
    /\ At("FinishEntry")
    /\ archive' = [archive EXCEPT ![Len(archive)].finished = TRUE]
    /\ openFds' = openFds \ {"in"}
    /\ entries' = Tail(entries)
    /\ cur' = "none"
    /\ pc' = "Loop"
    /\ UNCHANGED <<result, proc, ownedFds, offset, buffer, archiveFinished, collected>>
    /\ UNCHANGED loopUnchanged

\* lines 278-282
FinishEntryFailed ==
    /\ At("FinishEntry")
    /\ CollectFails
    /\ UNCHANGED <<ownedFds, entries, cur, offset, buffer, archive, archiveFinished>>
    /\ UNCHANGED loopUnchanged

\* lines 284-289: Finish returned 0, CollectRecordingData returns true and fp
\* goes out of scope
FinishOk ==
    /\ At("Loop")
    /\ entries = <<>>
    /\ archiveFinished' = TRUE
    /\ collected' = "ok"
    /\ openFds' = openFds \ {"out"}
    /\ pc' = "RemoveRecordingData"
    /\ UNCHANGED <<result, proc, ownedFds, entries, cur, offset, buffer, archive>>
    /\ UNCHANGED loopUnchanged

\* lines 285-288
FinishFailed ==
    /\ At("Loop")
    /\ entries = <<>>
    /\ CollectFails
    /\ UNCHANGED <<ownedFds, entries, cur, offset, buffer, archive, archiveFinished>>
    /\ UNCHANGED loopUnchanged

removeUnchanged == <<app_name_, prepVars, in_app_context_, out_fd_, stop_signal_fd_,
                     argStopFd, openFds, ownedFds, dir0, entries, cur, offset, buffer,
                     archive, archiveFinished, collected, runInAppCalled, watcher,
                     watcherFd, stopReadable, signalledAt>>

\* line 293: `rm -rf simpleperf_data` ran and exited with 0
RemoveRecordingDataOk ==
    /\ At("RemoveRecordingData")
    /\ removeCalled' = TRUE
    /\ dir' = NoDir
    /\ Return(TRUE)
    /\ UNCHANGED removeUnchanged

\* line 293: the command could not be run or failed
RemoveRecordingDataFailed ==
    /\ At("RemoveRecordingData")
    /\ removeCalled' = TRUE
    /\ dir' = dir
    /\ Return(FALSE)
    /\ UNCHANGED removeUnchanged

watcherUnchanged == <<pc, result, app_name_, prepVars, in_app_context_, out_fd_,
                      stop_signal_fd_, argStopFd, ownedFds, dir, dir0, entries, cur,
                      offset, buffer, archive, archiveFinished, collected, removeCalled,
                      runInAppCalled, watcherFd>>

\* the peer writes to the other end of the stop-signal descriptor, or closes it
StopSignalArrives ==
    /\ proc = "running"
    /\ argStopFd
    /\ ~stopReadable
    /\ stopReadable' = TRUE
    /\ signalledAt' = pc
    /\ UNCHANGED <<proc, openFds, watcher>>
    /\ UNCHANGED watcherUnchanged

\* read(fd, &c, 1) of line 229 returns: with a byte or EOF when the descriptor is
\* readable, with EBADF at once when fd is -1
ReadReturns(fd, readable) == fd = "none" \/ readable

\* line 229: the watcher's read returns
WatcherReadReturns ==
    /\ proc = "running"
    /\ watcher = "reading"
    /\ ReadReturns(watcherFd, stopReadable)
    /\ watcher' = "woken"
    /\ UNCHANGED <<proc, openFds, stopReadable, signalledAt>>
    /\ UNCHANGED watcherUnchanged

\* variant: the exit waits while the directory is being removed
WatcherExitOnlyBeforeRemove ==
    /\ proc = "running"
    /\ watcher = "woken"
    /\ pc # "RemoveRecordingData"
    /\ watcher' = "exited"
    /\ proc' = "exited"
    /\ openFds' = {}
    /\ UNCHANGED <<stopReadable, signalledAt>>
    /\ UNCHANGED watcherUnchanged

\* line 230: exit(1) ends the process, whatever the main thread is doing
WatcherExit ==
    /\ proc = "running"
    /\ watcher = "woken"
    /\ watcher' = "exited"
    /\ proc' = "exited"
    /\ openFds' = {}
    /\ UNCHANGED <<stopReadable, signalledAt>>
    /\ UNCHANGED watcherUnchanged

NextCollect ==
    \/ CollectParseRejected
    \/ CollectParseMissingApp
    \/ CollectParseOk
    \/ RunInAppContext
    \/ HandleStopSignal
    \/ FdopenFailed
    \/ FdopenOk
    \/ LoopSkip
    \/ StartEntryOk
    \/ StartEntryFailed
    \/ OpenReadOnlyOk
    \/ OpenReadOnlyFailed
    \/ ReadSome
    \/ ReadEof
    \/ ReadFailed
    \/ WriteBytesOk
    \/ WriteBytesFailed
    \/ FinishEntryOk
    \/ FinishEntryFailed
    \/ FinishOk
    \/ FinishFailed
    \/ RemoveRecordingDataOk
    \/ RemoveRecordingDataFailed
    \/ StopSignalArrives
    \/ WatcherReadReturns
    \/ WatcherExit

SpecCollect == InitCollect /\ [][NextCollect]_vars

(***************************************************************************)
(* Properties of CollectCommand, checked under SpecCollect                 *)
(***************************************************************************)
CollectionRan == collected # "pending"

\* where the main thread is while CollectRecordingData / RemoveRecordingData run
CollectionStages == {"Fdopen", "Loop", "OpenReadOnly", "Read", "WriteBytes",
                     "FinishEntry", "RemoveRecordingData"}

C2_WatcherFiresOnlyOnSuppliedFd ==
    /\ proc = "exited" => (argStopFd /\ stopReadable)
    /\ (in_app_context_ /\ ~argStopFd) => proc # "exited"

\* C3 as stated: when Run returns, every descriptor the handler took ownership
\* of is closed.
C3_AllOwnedFdsClosedAtReturn ==
    proc = "returned" => (ownedFds \cap openFds = {})

\* C3 as amended: when Run returns, every input file is closed, and the output
\* descriptor is closed if CollectRecordingData ran; the stop-signal descriptor is
\* released to the watcher and is still open, and in outer mode or after an
\* option error the descriptors are still open in the command object's members.
C3_FdsAtReturn ==
    proc = "returned" =>
        /\ "in" \notin openFds
        /\ CollectionRan => "out" \notin openFds
        /\ (CollectionRan /\ argStopFd) =>
              ("stop" \in openFds /\ stop_signal_fd_ = "none" /\ watcherFd = "stop")
        /\ ~CollectionRan => (ownedFds \subseteq openFds /\ "in" \notin ownedFds)

C3_Witness ==
    /\ proc = "returned"
    /\ collected = "failed"
    /\ {"in", "out", "stop"} \subseteq ownedFds
    /\ openFds = {"stop"}

\* C4: after an inner-mode run that returned success simpleperf_data does not
\* exist; once CollectRecordingData has failed, Run does not return true,
\* RemoveRecordingData is never invoked, the directory is as it was, and nothing
\* more is written to the archive.
C4_CleanupOnlyAfterSuccess ==
    /\ [](/\ (proc = "returned" /\ result = TRUE /\ in_app_context_) => ~DirExists(dir)
          /\ collected = "failed" =>
                /\ ~removeCalled
                /\ dir = dir0
                /\ ~archiveFinished
                /\ proc = "returned" => result = FALSE)
    /\ [][collected = "failed" => (archive' = archive /\ collected' = "failed")]_vars

C4_Witness ==
    /\ collected = "failed"
    /\ proc = "returned"
    /\ DirExists(dir)
    /\ Len(archive) = 2
    /\ entries # <<>>

HasTemporaryPrefix(name) ==
    /\ Len(name) >= Len(TEMP_PREFIX)
    /\ \A i \in 1..Len(TEMP_PREFIX) : name[i] = TEMP_PREFIX[i]

Eligible(d) ==
    IF d.exists
    THEN {n \in DOMAIN d.files : d.files[n].kind = "file" /\ ~HasTemporaryPrefix(n)}
    ELSE {}

\* C5: after a successful CollectRecordingData the archive holds exactly one
\* finished entry for each regular file of the directory whose name does not
\* start with "TemporaryFile-", named after the file and holding its bytes, and
\* holds nothing else.
C5_ArchiveIsTheEligibleFiles ==
    collected = "ok" =>
        /\ archiveFinished
        /\ Len(archive) = Cardinality(Eligible(dir0))
        /\ \A i \in 1..Len(archive) :
              /\ archive[i].name \in Eligible(dir0)
              /\ archive[i].finished
              /\ archive[i].data = dir0.files[archive[i].name].data
        /\ \A n \in Eligible(dir0) :
              Cardinality({i \in 1..Len(archive) : archive[i].name = n}) = 1

C5_Witness ==
    /\ collected = "ok"
    /\ DOMAIN dir0.files = NameSet
    /\ Len(dir0.files[PERF_DATA].data) = MaxFileLen
    /\ dir0.files[TEMPORARY_FILE].kind = "file"
    /\ Len(archive) = 2

\* C6: without --in-app and without --app, ParseOptions fails, Run returns false
\* and RunInAppContext is not called; RunInAppContext is called only after
\* ParseOptions succeeded with a non-empty application name.
C6_OuterModeNeedsApp ==
    /\ runInAppCalled => (parsed /\ app_name_ # "" /\ ~in_app_context_)
    /\ (pc # "ParseOptions" /\ ~in_app_context_ /\ app_name_ = "") =>
          (~parsed /\ ~runInAppCalled /\ proc = "returned" /\ result = FALSE)

C6_Witness ==
    /\ proc = "returned"
    /\ ~parsed
    /\ out_fd_ = "out"
    /\ ~runInAppCalled

(***************************************************************************)
(* Properties of PrepareCommand, checked under SpecPrepare                 *)
(***************************************************************************)
DurableCondition ==
    androidVersion >= 13 /\ app_name_ # "" /\ days_ # 0

\* C7 as stated: every invocation takes exactly one of the two branches, the
\* durable one if and only if the OS version is at least 13 and --app is
\* non-empty and --days is non-zero, and the transient one writes no property.
C7_ExactlyOneBranchPerInvocation ==
    proc = "returned" =>
        /\ branch \in {"durable", "transient"}
        /\ branch = "durable" <=> DurableCondition
        /\ branch = "transient" => setPropertyLog = <<>>

\* C7 as amended: every invocation whose option parsing succeeded takes exactly
\* one of the two branches, the durable one if and only if the OS version is at
\* least 13 and --app is non-empty and --days is non-zero, and the transient one
\* writes no property; an invocation whose option parsing failed takes neither.
C7_OneBranchAfterParsing ==
    /\ (parsed /\ pc # "SelectBranch") =>
          /\ branch \in {"durable", "transient"}
          /\ branch = "durable" <=> DurableCondition
          /\ branch = "transient" => (setPropertyLog = <<>> /\ props \in InitialProps)
    /\ (parsed /\ pc = "SelectBranch") => branch = "none"
    /\ ~parsed => (branch = "none" /\ setPropertyLog = <<>>)

C7_Witness ==
    /\ proc = "returned"
    /\ androidVersion < 13
    /\ app_name_ # ""
    /\ days_ # 0
    /\ branch = "transient"

ExactExpiration == now + days_ * 86400

\* C8: in the durable branch the expiration is now + days * 86400 when neither
\* the product nor the sum leaves the unsigned 64-bit range, and UINT64_MAX when
\* one of them does; the property written is that number in decimal.
C8_ExpirationSaturates ==
    branch = "durable" =>
        /\ expiration_time =
              IF days_ * 86400 <= UINT64_MAX /\ ExactExpiration \in 0..UINT64_MAX
              THEN ExactExpiration
              ELSE UINT64_MAX
        /\ Len(setPropertyLog) = 2 =>
              DecimalValue(props[PROP_EXPIRATION]) = expiration_time

C8_Witness ==
    /\ branch = "durable"
    /\ days_ * 86400 <= UINT64_MAX
    /\ ExactExpiration > UINT64_MAX
    /\ Len(setPropertyLog) = 2
    /\ props[PROP_EXPIRATION] = to_string(UINT64_MAX)

UidResolved == branch = "durable" /\ pc # "GetAppUid"

LinesNaming(app) ==
    {i \in 1..Len(listing) : listing[i].kind = "pkg" /\ listing[i].name = app}

\* C9 as stated: GetAppUid returns the uid of the first line of the listing
\* whose package name is app_name_, and nullopt when there is no such line.
C9_FirstNameMatchWins ==
    UidResolved =>
        IF LinesNaming(app_name_) = {}
        THEN uid = nullopt
        ELSE uid = Some(DecimalValue(listing[Min(LinesNaming(app_name_))].uid))

ParsableLinesNaming(app) ==
    {i \in LinesNaming(app) : DecimalValue(listing[i].uid) <= UINT32_MAX}

\* C9 as amended: GetAppUid returns the uid of the first line of the listing
\* whose package name is app_name_ and whose uid parses as an unsigned 32-bit
\* integer (a line whose uid does not parse is skipped), and nullopt when there
\* is no such line.
C9_FirstParsableNameMatchWins ==
    UidResolved =>
        IF ParsableLinesNaming(app_name_) = {}
        THEN uid = nullopt
        ELSE uid = Some(DecimalValue(listing[Min(ParsableLinesNaming(app_name_))].uid))

C9_Witness ==
    /\ UidResolved
    /\ Cardinality(ParsableLinesNaming(app_name_)) >= 2
    /\ \E i \in 1..Len(listing) : listing[i].name # app_name_ /\ listing[i].kind = "pkg"
    /\ Min(ParsableLinesNaming(app_name_)) > 1
    /\ uid # Some(DecimalValue(listing[Len(listing)].uid))
    /\ uid = Some(DecimalValue(listing[Min(ParsableLinesNaming(app_name_))].uid))

\* C10: in the durable branch no property is written unless the uid was
\* resolved, the uid property is written before the expiration property and the
\* expiration property only after it, the tracepoint file is written only after
\* both; a failed resolution or property write makes Run return false, and a
\* failure leaves the store untouched, or with the new uid and the old
\* expiration, or with both written.
C10_DurableStepsAreGated ==
    /\ setPropertyLog \in {<<>>, <<PROP_UID>>, <<PROP_UID, PROP_EXPIRATION>>}
    /\ setPropertyLog # <<>> =>
          /\ branch = "durable"
          /\ uid # nullopt
          /\ DecimalValue(props[PROP_UID]) = Value(uid)
    /\ setPropertyLog = <<>> => props \in InitialProps
    /\ setPropertyLog = <<PROP_UID>> =>
          \E p \in InitialProps : props[PROP_EXPIRATION] = p[PROP_EXPIRATION]
    /\ (branch = "durable" /\ (pc = "WriteTracepoints" \/ tracepointsWritten)) =>
          setPropertyLog = <<PROP_UID, PROP_EXPIRATION>>
    /\ (branch = "durable" /\ proc = "returned" /\ Len(setPropertyLog) < 2) =>
          result = FALSE

C10_Witness ==
    /\ proc = "returned"
    /\ result = FALSE
    /\ setPropertyLog = <<PROP_UID>>
    /\ props[PROP_UID] = <<0 + 9>>
    /\ props[PROP_EXPIRATION] = <<1>>

====
